---- MODULE Spec2Model ----
(***************************************************************************)
(* Edunity API: the generic CRUD handler factory (crudFactory.ts), its     *)
(* request dispatcher, the response envelope (api-helpers.ts), the legacy  *)
(* response wrapper (response-wraper.ts), the root route and the           *)
(* university route, over a model of the backend table they query.         *)
(***************************************************************************)
EXTENDS Integers, Sequences, FiniteSets, TLC

VARIABLES
    rows,      \* the backend table of the factory's resource, in stored order
    config,    \* the factory configuration captured by closure (which hooks are set)
    pc,        \* per invocation: "idle" or "handler" (client acquired, handler pending)
    client,    \* per invocation: the backend client it acquired ("none" when idle)
    created,   \* history: identifier of the latest successfully created row still stored
    last       \* the invocation that has just completed, until its response is sent

vars == <<rows, config, pc, client, created, last>>

(***************************************************************************)
(* Bounds of the model.                                                    *)
(***************************************************************************)
MaxRows == 2    \* the table holds at most this many rows
MaxPage == 3    \* page and pageSize query values range over 1..MaxPage (and the odd ones)

Reqs == {"r1", "r2"}          \* concurrently running invocations
IdPool == <<"a", "b", "c", "d">>
Ids == {IdPool[i] : i \in 1..MaxRows}   \* identifiers the backend may generate
BodyIds == {"a", "b"}         \* identifiers a request body may carry
Names == {"x", "y"}           \* values of a row's data field

(***************************************************************************)
(* packages/helpers/api-helpers.ts: the enums.                             *)
(***************************************************************************)
HttpStatus ==
    [OK |-> 200, CREATED |-> 201, BAD_REQUEST |-> 400, UNAUTHORIZED |-> 401,
     FORBIDDEN |-> 403, NOT_FOUND |-> 404, CONFLICT |-> 409,
     UNPROCESSABLE_ENTITY |-> 422, INTERNAL_SERVER_ERROR |-> 500,
     SERVICE_UNAVAILABLE |-> 503]

ErrorCode ==
    [UNKNOWN_ERROR |-> "UNKNOWN_ERROR", VALIDATION_ERROR |-> "VALIDATION_ERROR",
     NOT_FOUND |-> "NOT_FOUND", UNAUTHORIZED |-> "UNAUTHORIZED",
     FORBIDDEN |-> "FORBIDDEN", BAD_REQUEST |-> "BAD_REQUEST",
     SUPABASE_NOT_INITIALIZED |-> "SUPABASE_NOT_INITIALIZED",
     SUPABASE_QUERY_ERROR |-> "SUPABASE_QUERY_ERROR",
     SUPABASE_CONNECTION_ERROR |-> "SUPABASE_CONNECTION_ERROR",
     DUPLICATE_ENTRY |-> "DUPLICATE_ENTRY", CONFLICT |-> "CONFLICT",
     INTERNAL_SERVER_ERROR |-> "INTERNAL_SERVER_ERROR",
     SERVICE_UNAVAILABLE |-> "SERVICE_UNAVAILABLE"]

(***************************************************************************)
(* JavaScript numbers, as far as the pagination arithmetic needs them:     *)
(* integers, NaN and the two infinities.                                   *)
(***************************************************************************)
Num(n) == [t |-> "num", n |-> n]
NaN == [t |-> "NaN", n |-> 0]
Infinity == [t |-> "Infinity", n |-> 0]
NegInfinity == [t |-> "-Infinity", n |-> 0]

IsNum(a) == a.t = "num"

\* a - b, a + b, a * b on integers-or-NaN (no operand here is ever infinite)
JsSub(a, b) == IF IsNum(a) /\ IsNum(b) THEN Num(a.n - b.n) ELSE NaN
JsAdd(a, b) == IF IsNum(a) /\ IsNum(b) THEN Num(a.n + b.n) ELSE NaN
JsMul(a, b) == IF IsNum(a) /\ IsNum(b) THEN Num(a.n * b.n) ELSE NaN

\* Math.ceil(a / b) for an integer a >= 0 and b an integer or NaN
CeilDiv(a, b) ==
    IF ~IsNum(b) THEN NaN
    ELSE IF b.n = 0 THEN (IF a = 0 THEN NaN ELSE Infinity)
    ELSE IF b.n > 0 THEN Num((a + b.n - 1) \div b.n)
    ELSE Num(-(a \div (-b.n)))

(***************************************************************************)
(* Strings of the query string are sequences of characters; parseInt(s,10) *)
(* skips leading blanks, reads an optional sign and the longest run of     *)
(* decimal digits, and is NaN when there is no digit.                      *)
(***************************************************************************)
Digits == {"0", "1", "2", "3", "4", "5", "6", "7", "8", "9"}
DigitVal(c) ==
    CASE c = "0" -> 0 [] c = "1" -> 1 [] c = "2" -> 2 [] c = "3" -> 3
      [] c = "4" -> 4 [] c = "5" -> 5 [] c = "6" -> 6 [] c = "7" -> 7
      [] c = "8" -> 8 [] c = "9" -> 9

RECURSIVE SkipBlanks(_)
SkipBlanks(s) ==
    IF s # <<>> /\ Head(s) = " " THEN SkipBlanks(Tail(s)) ELSE s

RECURSIVE ReadDigits(_, _)
ReadDigits(s, acc) ==
    IF s # <<>> /\ Head(s) \in Digits
    THEN ReadDigits(Tail(s), acc * 10 + DigitVal(Head(s)))
    ELSE acc

parseInt(str) ==
    LET s == SkipBlanks(str)
        signed == s # <<>> /\ Head(s) \in {"+", "-"}
        digits == IF signed THEN Tail(s) ELSE s
    IN  IF digits = <<>> \/ Head(digits) \notin Digits THEN NaN
        ELSE IF signed /\ Head(s) = "-" THEN Num(-ReadDigits(digits, 0))
        ELSE Num(ReadDigits(digits, 0))

\* searchParams.get(k): null when the parameter is missing
Missing == [present |-> FALSE, s |-> <<>>]
Raw(s) == [present |-> TRUE, s |-> s]

\* searchParams.get(k) || dflt : null and "" are falsy
OrDefault(v, dflt) == IF v.present /\ v.s # <<>> THEN v.s ELSE dflt

(***************************************************************************)
(* packages/helpers/api-helpers.ts: ApiResponse.  A response is the HTTP   *)
(* status and the JSON body.                                               *)
(***************************************************************************)
NoPagination == [absent |-> TRUE]
NoDetails == [empty |-> TRUE]      \* the default details = {}

\* JSON.stringify of a number: NaN and the infinities are written as null
JsonNumber(a) == IF IsNum(a) THEN a ELSE [t |-> "null", n |-> 0]

\* NextResponse.json(body, {status}) of a success body
ApiResponse_success(data, status, pagination) ==
    [status |-> status,
     body |-> IF pagination # NoPagination
              THEN [success |-> TRUE, data |-> data,
                    pagination |-> [f \in DOMAIN pagination |-> JsonNumber(pagination[f])]]
              ELSE [success |-> TRUE, data |-> data]]

ApiResponse_error(code, message, status, details) ==
    [status |-> status,
     body |-> [success |-> FALSE,
               error |-> [code |-> code, message |-> message, details |-> details]]]

(***************************************************************************)
(* apps/api/utils/response-wraper.ts: the legacy wrapper.                  *)
(***************************************************************************)
successResponse(data, statusCode) ==
    [status |-> statusCode,
     body |-> [success |-> TRUE, status |-> statusCode, data |-> data]]

errorResponse(error, statusCode) ==
    [status |-> statusCode,
     body |-> [success |-> FALSE, status |-> statusCode, error |-> error]]

(***************************************************************************)
(* JSON values of a request body.  A body is malformed (req.json() rejects),*)
(* the JSON null, or an object with optional fields id and name.           *)
(***************************************************************************)
Absent == [t |-> "absent", v |-> ""]
Str(s) == [t |-> "string", v |-> s]
NumV(s) == [t |-> "number", v |-> s]      \* a JSON number, by its decimal text

Obj(id, name) == [kind |-> "object", id |-> id, name |-> name]
NullBody == [kind |-> "null", id |-> Absent, name |-> Absent]
Malformed == [kind |-> "malformed", id |-> Absent, name |-> Absent]

\* JavaScript truthiness of a field value: undefined, "" and 0 are falsy
Truthy(x) == x.t # "absent" /\ x.v # "" /\ ~(x.t = "number" /\ x.v = "0")

\* Object.keys of a validated object
Keys(data) == {f \in {"id", "name"} : data[f].t # "absent"}

(***************************************************************************)
(* Faults (thrown exceptions / rejected promises), by their message.       *)
(***************************************************************************)
FaultClient == "createServerSideClient failed"
FaultJson == "Unexpected token in JSON"
FaultDestructure == "Cannot destructure property 'id' of null"
FaultHook == "hook failed"
FaultBackend == "fetch failed"
FaultMessages == {FaultClient, FaultJson, FaultDestructure, FaultHook, FaultBackend}

\* how a handler ends: it returns an envelope or it throws
NoResponse == [status |-> 0, body |-> [none |-> TRUE]]
Ret(resp) == [threw |-> FALSE, fault |-> "", resp |-> resp]
Throw(msg) == [threw |-> TRUE, fault |-> msg, resp |-> NoResponse]
NotInvoked == [threw |-> FALSE, fault |-> "", resp |-> NoResponse]

(***************************************************************************)
(* The backend (query builder) as the factory uses it.  Each query         *)
(* resolves to {data, error, count}; `be` is what the backend does with    *)
(* this query: kind "ok", "error" (with an error code) or "throw".         *)
(***************************************************************************)
Null == [t |-> "null", n |-> 0]
NoError == [code |-> "", message |-> "", details |-> ""]
BackendError(code) ==
    [code |-> code,
     message |-> IF code = "23505" THEN "duplicate key value violates unique constraint"
                 ELSE IF code = "PGRST103" THEN "Requested range not satisfiable"
                 ELSE IF code = "PGRST116" THEN "JSON object requested, multiple (or no) rows returned"
                 ELSE IF code = "53100" THEN "could not extend file"
                 ELSE IF code = "23503" THEN "violates foreign key constraint"
                 ELSE "canceling statement due to statement timeout",
     details |-> IF code = "23505" THEN "Key already exists." ELSE ""]

IdsOf(tbl) == {tbl[i].id : i \in 1..Len(tbl)}
Min(a, b) == IF a <= b THEN a ELSE b

\* rows from..to (0-based, inclusive) of the table, in stored order
Slice(tbl, from, to) ==
    IF from >= Len(tbl) THEN <<>> ELSE SubSeq(tbl, from + 1, Min(to + 1, Len(tbl)))

\* .from(t).select(q, {count: "exact"}).range(from, to)
Select(tbl, from, to, be) ==
    IF be.kind = "error"
    THEN [data |-> <<>>, error |-> BackendError(be.code), count |-> Null]
    ELSE IF ~(IsNum(from) /\ IsNum(to) /\ from.n >= 0 /\ to.n >= from.n)
    THEN [data |-> <<>>, error |-> BackendError("PGRST103"), count |-> Null]
    ELSE [data |-> Slice(tbl, from.n, to.n), error |-> NoError,
          count |-> IF be.countAbsent THEN Null ELSE Num(Len(tbl))]

InsertAt(tbl, pos, row) ==
    SubSeq(tbl, 1, pos - 1) \o <<row>> \o SubSeq(tbl, pos, Len(tbl))

\* .from(t).insert(data).select().single()
Insert(tbl, data, be) ==
    LET id == IF data.id.t = "absent" THEN be.newId ELSE data.id.v
        row == [id |-> id, name |-> data.name.v]
    IN  IF be.kind = "error"
        THEN [rows |-> tbl, data |-> Null, error |-> BackendError(be.code)]
        ELSE IF id \in IdsOf(tbl)
        THEN [rows |-> tbl, data |-> Null, error |-> BackendError("23505")]
        ELSE IF Len(tbl) >= MaxRows      \* the table is full: the insert is refused
        THEN [rows |-> tbl, data |-> Null, error |-> BackendError("53100")]
        ELSE [rows |-> InsertAt(tbl, Min(be.pos, Len(tbl) + 1), row),
              data |-> row, error |-> NoError]

\* .from(t).update(updateData).eq("id", id).select().single()
Update(tbl, fields, data, id, be) ==
    LET upd(row) == IF row.id = id /\ "name" \in fields
                    THEN [row EXCEPT !.name = data.name.v] ELSE row
        new == [i \in 1..Len(tbl) |-> upd(tbl[i])]
        hit == {i \in 1..Len(tbl) : tbl[i].id = id}
    IN  IF be.kind = "error"
        THEN [rows |-> tbl, data |-> Null, error |-> BackendError(be.code)]
        ELSE IF hit = {}
        THEN [rows |-> tbl, data |-> Null,
              error |-> IF be.noRowIsError THEN BackendError("PGRST116") ELSE NoError]
        ELSE [rows |-> new, data |-> new[CHOOSE i \in hit : TRUE], error |-> NoError]

RECURSIVE Without(_, _)
Without(tbl, id) ==
    IF tbl = <<>> THEN <<>>
    ELSE IF Head(tbl).id = id THEN Without(Tail(tbl), id)
    ELSE <<Head(tbl)>> \o Without(Tail(tbl), id)

\* .from(t).delete({count: "exact"}).eq("id", id)
Delete(tbl, id, be) ==
    IF be.kind = "error"
    THEN [rows |-> tbl, error |-> BackendError(be.code), count |-> Null]
    ELSE [rows |-> Without(tbl, id), error |-> NoError,
          count |-> Num(Cardinality({i \in 1..Len(tbl) : tbl[i].id = id}))]

(***************************************************************************)
(* The schema validator (safeParse) of the configured create and update    *)
(* schemas: name is a non-empty string of the resource, id a non-empty     *)
(* string; the create schema requires name, the update schema requires id. *)
(***************************************************************************)
ValidName(x) == x.t = "string" /\ x.v \in Names
ValidId(x) == x.t = "string" /\ x.v # ""

Flatten(body) ==
    [fieldErrors |-> IF body.kind # "object" THEN {"body"}
                     ELSE {f \in {"id", "name"} : body[f].t # "absent"
                              /\ ~(IF f = "id" THEN ValidId(body[f]) ELSE ValidName(body[f]))}
                          \cup {f \in {"id", "name"} : body[f].t = "absent"}]

createSchema_safeParse(body) ==
    IF body.kind = "object" /\ ValidName(body.name)
       /\ (body.id.t = "absent" \/ ValidId(body.id))
    THEN [success |-> TRUE, data |-> [id |-> body.id, name |-> body.name],
          error |-> [fieldErrors |-> {}]]
    ELSE [success |-> FALSE, data |-> [id |-> Absent, name |-> Absent],
          error |-> Flatten(body)]

updateSchema_safeParse(body) ==
    IF body.kind = "object" /\ ValidId(body.id)
       /\ (body.name.t = "absent" \/ ValidName(body.name))
    THEN [success |-> TRUE, data |-> [id |-> body.id, name |-> body.name],
          error |-> [fieldErrors |-> {}]]
    ELSE [success |-> FALSE, data |-> [id |-> Absent, name |-> Absent],
          error |-> Flatten(body)]

(***************************************************************************)
(* crudFactory.ts: the configuration and the hooks.                        *)
(***************************************************************************)
tableName == "course"
resourceName == tableName

\* afterGet: post-processes the fetched rows (joins related data)
afterGet(data) ==
    [i \in 1..Len(data) |-> [id |-> data[i].id, name |-> data[i].name, joined |-> TRUE]]

\* beforeInsert: may modify the validated data before the insert
beforeInsert(data) == data

(***************************************************************************)
(* crudFactory.ts: handleRequest, the dispatcher.  `acquired` is what      *)
(* createServerSideClient() did ("client", "falsy" or "throw"); `h` is how *)
(* the per-endpoint handler ended (read only when the client is truthy).   *)
(***************************************************************************)
UnexpectedMessage == <<"An unexpected error occurred.">>

\* if (!supabase) return ...: the handler is reached with a truthy client only
\* (faulty variant: the falsy client is not checked)
HandlerInvoked_mut(acquired) == acquired # "throw"
HandlerInvoked(acquired) == acquired = "client"

\* the catch block
Caught(fault) ==
    ApiResponse_error(ErrorCode.INTERNAL_SERVER_ERROR, UnexpectedMessage,
                      HttpStatus.INTERNAL_SERVER_ERROR, NoDetails)

NotInitialized ==
    ApiResponse_error(ErrorCode.SUPABASE_NOT_INITIALIZED,
                      <<"Supabase client not initialized">>,
                      HttpStatus.INTERNAL_SERVER_ERROR, NoDetails)

\* (faulty variant: the catch block answers with the fault's message, as the
\* university route does)
handleRequest_mut(acquired, h) ==
    IF acquired = "throw"
    THEN ApiResponse_error(ErrorCode.INTERNAL_SERVER_ERROR, <<FaultClient>>,
                           HttpStatus.INTERNAL_SERVER_ERROR, NoDetails)
    ELSE IF ~HandlerInvoked(acquired) THEN NotInitialized
    ELSE IF h.threw
    THEN ApiResponse_error(ErrorCode.INTERNAL_SERVER_ERROR, <<h.fault>>,
                           HttpStatus.INTERNAL_SERVER_ERROR, NoDetails)
    ELSE h.resp

handleRequest(acquired, h) ==
    IF acquired = "throw" THEN Caught(FaultClient)
    ELSE IF ~HandlerInvoked(acquired) THEN NotInitialized
    ELSE IF h.threw THEN Caught(h.fault)
    ELSE h.resp

(***************************************************************************)
(* What a handler run amounts to: how it ended, the table after it, and    *)
(* what it did on the way (body reads, hook calls, the backend query).     *)
(***************************************************************************)
NoQuery == [op |-> "none"]

\* how the backend answered a query: it threw, it returned an error, or it was fine
Result(be, res) ==
    [kind |-> IF be.kind = "throw" THEN "throw"
              ELSE IF res.error # NoError THEN "error" ELSE "ok",
     code |-> IF be.kind = "throw" THEN "" ELSE res.error.code]
Done(comp, tbl, reads, hooks, query) ==
    [comp |-> comp, rows |-> tbl, bodyReads |-> reads, hookCalls |-> hooks,
     query |-> query]

QueryError(error) ==
    ApiResponse_error(ErrorCode.SUPABASE_QUERY_ERROR, <<error.message>>,
                      HttpStatus.INTERNAL_SERVER_ERROR, NoDetails)

(***************************************************************************)
(* GET: the paginated list.                                                *)
(***************************************************************************)
\* (faulty variants: pages counted from 0; inclusive upper end forgotten)
RangeFrom_mut(page, pageSize) == JsMul(page, pageSize)
RangeFrom(page, pageSize) == JsMul(JsSub(page, Num(1)), pageSize)
RangeTo_mut(from, pageSize) == JsAdd(from, pageSize)
RangeTo(from, pageSize) == JsSub(JsAdd(from, pageSize), Num(1))

\* count ?? 0
CountOrZero(count) == IF count.t = "null" THEN 0 ELSE count.n

TotalPages(count, pageSize) == CeilDiv(CountOrZero(count), pageSize)

GET_handler(cfg, tbl, q, be) ==
    LET page == parseInt(OrDefault(q.page, <<"1">>))
        pageSize == parseInt(OrDefault(q.pageSize, <<"1", "0">>))
        from == RangeFrom(page, pageSize)
        to == RangeTo(from, pageSize)
        res == Select(tbl, from, to, be)
        query == [op |-> "select", from |-> from, to |-> to, result |-> Result(be, res),
                  count |-> res.count]
    IN  IF be.kind = "throw" THEN Done(Throw(FaultBackend), tbl, 0, 0, query)
        ELSE IF res.error # NoError
        THEN Done(Ret(QueryError(res.error)), tbl, 0, 0, query)
        ELSE IF cfg.afterGet /\ be.hookThrows
        THEN Done(Throw(FaultHook), tbl, 0, 1, query)
        ELSE Done(Ret(ApiResponse_success(
                        IF cfg.afterGet THEN afterGet(res.data) ELSE res.data,
                        HttpStatus.OK,
                        [page |-> page, pageSize |-> Num(Len(res.data)),
                         total |-> Num(CountOrZero(res.count)),
                         totalPages |-> TotalPages(res.count, pageSize)])),
                  tbl, 0, IF cfg.afterGet THEN 1 ELSE 0, query)

(***************************************************************************)
(* POST: create.                                                           *)
(***************************************************************************)
\* (faulty variant: a validation failure answered as 400 BAD_REQUEST)
ValidationError_mut(validation) ==
    ApiResponse_error(ErrorCode.BAD_REQUEST, <<"Invalid input.">>,
                      HttpStatus.BAD_REQUEST, validation.error)

ValidationError(validation) ==
    ApiResponse_error(ErrorCode.VALIDATION_ERROR, <<"Invalid input.">>,
                      HttpStatus.UNPROCESSABLE_ENTITY, validation.error)

\* (faulty variant: every insert error taken for a conflict)
InsertError_mut(error) ==
    IF error.code # ""
    THEN ApiResponse_error(ErrorCode.CONFLICT, <<resourceName, " already exists.">>,
                           HttpStatus.CONFLICT, [details |-> error.details])
    ELSE QueryError(error)

\* the translation of a backend insert error
InsertError(error) ==
    IF error.code = "23505"
    THEN ApiResponse_error(ErrorCode.CONFLICT, <<resourceName, " already exists.">>,
                           HttpStatus.CONFLICT, [details |-> error.details])
    ELSE QueryError(error)

POST_handler(cfg, tbl, body, be) ==
    IF body.kind = "malformed" THEN Done(Throw(FaultJson), tbl, 1, 0, NoQuery)
    ELSE
    LET validation == createSchema_safeParse(body)
        hooks == IF cfg.beforeInsert THEN 1 ELSE 0
    IN  IF ~validation.success
        THEN Done(Ret(ValidationError(validation)), tbl, 1, 0, NoQuery)
        ELSE IF cfg.beforeInsert /\ be.hookThrows
        THEN Done(Throw(FaultHook), tbl, 1, 1, NoQuery)
        ELSE
        LET dataToInsert == IF cfg.beforeInsert THEN beforeInsert(validation.data)
                            ELSE validation.data
            res == Insert(tbl, dataToInsert, be)
            query == [op |-> "insert", data |-> dataToInsert, result |-> Result(be, res)]
        IN  IF be.kind = "throw" THEN Done(Throw(FaultBackend), tbl, 1, hooks, query)
            ELSE IF res.error # NoError
            THEN Done(Ret(InsertError(res.error)), res.rows, 1, hooks, query)
            ELSE Done(Ret(ApiResponse_success(res.data, HttpStatus.CREATED, NoPagination)),
                      res.rows, 1, hooks, query)

(***************************************************************************)
(* PUT: update.                                                            *)
(***************************************************************************)
BadRequest(message) ==
    ApiResponse_error(ErrorCode.BAD_REQUEST, <<message>>, HttpStatus.BAD_REQUEST,
                      NoDetails)

\* (faulty variant: the identifier is left out of the message)
NotFound_mut(id) ==
    ApiResponse_error(ErrorCode.NOT_FOUND, <<resourceName, " not found.">>,
                      HttpStatus.NOT_FOUND, NoDetails)

NotFound(id) ==
    ApiResponse_error(ErrorCode.NOT_FOUND,
                      <<resourceName, " with ID ", id, " not found.">>,
                      HttpStatus.NOT_FOUND, NoDetails)

\* (faulty variant: the identifier is left in the update data)
UpdateData_mut(data) == Keys(data)

\* const { id, ...updateData } = validation.data : the keys of updateData
UpdateData(data) == Keys(data) \ {"id"}

PUT_handler(cfg, tbl, body, be) ==
    IF body.kind = "malformed"
    THEN Done(Ret(BadRequest("Invalid JSON format in request body.")), tbl, 1, 0, NoQuery)
    ELSE
    LET validation == updateSchema_safeParse(body) IN
    IF ~validation.success
    THEN Done(Ret(ValidationError(validation)), tbl, 1, 0, NoQuery)
    ELSE
    LET id == validation.data.id.v
        updateData == UpdateData(validation.data)
    IN  IF Cardinality(updateData) = 0
        THEN Done(Ret(BadRequest("No fields to update provided.")), tbl, 1, 0, NoQuery)
        ELSE
        LET res == Update(tbl, updateData, validation.data, id, be)
            query == [op |-> "update", fields |-> updateData, id |-> id,
                      result |-> Result(be, res), data |-> res.data]
        IN  IF be.kind = "throw" THEN Done(Throw(FaultBackend), tbl, 1, 0, query)
            ELSE IF res.error # NoError
            THEN Done(Ret(QueryError(res.error)), res.rows, 1, 0, query)
            ELSE IF res.data = Null
            THEN Done(Ret(NotFound(id)), res.rows, 1, 0, query)
            ELSE Done(Ret(ApiResponse_success(res.data, HttpStatus.OK, NoPagination)),
                      res.rows, 1, 0, query)

(***************************************************************************)
(* DELETE: remove by identifier.                                           *)
(***************************************************************************)
\* (faulty variant: only the type of the identifier is checked)
InvalidDeleteId_mut(id) == id.t # "string"

\* !id || typeof id !== "string"
InvalidDeleteId(id) == ~Truthy(id) \/ id.t # "string"

DELETE_handler(cfg, tbl, body, be) ==
    IF body.kind = "malformed" THEN Done(Throw(FaultJson), tbl, 1, 0, NoQuery)
    ELSE IF body.kind = "null" THEN Done(Throw(FaultDestructure), tbl, 1, 0, NoQuery)
    ELSE
    LET id == body.id IN
    IF InvalidDeleteId(id)
    THEN Done(Ret(BadRequest("A valid 'id' is required for deletion.")), tbl, 1, 0, NoQuery)
    ELSE
    LET res == Delete(tbl, id.v, be)
        query == [op |-> "delete", id |-> id.v, result |-> Result(be, res)]
    IN  IF be.kind = "throw" THEN Done(Throw(FaultBackend), tbl, 1, 0, query)
        ELSE IF res.error # NoError
        THEN Done(Ret(QueryError(res.error)), res.rows, 1, 0, query)
        ELSE IF res.count = Num(0)
        THEN Done(Ret(NotFound(id.v)), res.rows, 1, 0, query)
        ELSE Done(Ret(ApiResponse_success(
                        [message |-> <<resourceName, " deleted successfully.">>],
                        HttpStatus.OK, NoPagination)),
                  res.rows, 1, 0, query)

(***************************************************************************)
(* apps/api/app/route.ts: the root endpoint.  createServerSideClient() is  *)
(* called (not awaited) inside the try block and may throw.                *)
(***************************************************************************)
Root_GET(clientThrows, now) ==
    IF clientThrows
    THEN errorResponse(FaultClient, HttpStatus.INTERNAL_SERVER_ERROR)
    ELSE successResponse([message |-> "Welcome to Edunity API", timestamp |-> now],
                         HttpStatus.OK)

(***************************************************************************)
(* apps/api/app/university/route.ts: the university list, not paginated.   *)
(***************************************************************************)
University_GET(acquired, tbl, be) ==
    IF acquired = "throw"
    THEN ApiResponse_error(ErrorCode.INTERNAL_SERVER_ERROR, <<FaultClient>>,
                           HttpStatus.INTERNAL_SERVER_ERROR, NoDetails)
    ELSE IF acquired = "falsy"
    THEN ApiResponse_error(ErrorCode.SUPABASE_NOT_INITIALIZED,
                           <<"Supabase client not initialized">>,
                           HttpStatus.INTERNAL_SERVER_ERROR, NoDetails)
    ELSE IF be.kind = "throw"
    THEN ApiResponse_error(ErrorCode.INTERNAL_SERVER_ERROR, <<FaultBackend>>,
                           HttpStatus.INTERNAL_SERVER_ERROR, NoDetails)
    ELSE IF be.kind = "error" THEN QueryError(BackendError(be.code))
    ELSE ApiResponse_success(tbl, HttpStatus.OK,
             [page |-> Num(1), pageSize |-> Num(Len(tbl)),
              \* count ?? data.length : both are the number of rows
              total |-> Num(IF be.countAbsent THEN Len(tbl) ELSE Len(tbl)),
              totalPages |-> Num(1)])

(***************************************************************************)
(* Inputs of the model: query strings, request bodies, and what the        *)
(* backend does with a query.                                              *)
(***************************************************************************)
DigitChar(d) ==
    CASE d = 0 -> "0" [] d = 1 -> "1" [] d = 2 -> "2" [] d = 3 -> "3" [] d = 4 -> "4"
      [] d = 5 -> "5" [] d = 6 -> "6" [] d = 7 -> "7" [] d = 8 -> "8" [] d = 9 -> "9"

\* the decimal text of n, 0 <= n <= 99
Decimal(n) == IF n < 10 THEN <<DigitChar(n)>> ELSE <<DigitChar(n \div 10), DigitChar(n % 10)>>

QueryVals ==
    {Missing, Raw(<<"a", "b", "c">>), Raw(<<"0">>), Raw(<<"-", "1">>)}
    \cup {Raw(Decimal(n)) : n \in 1..MaxPage}

Queries == [page : QueryVals, pageSize : QueryVals]

BodiesWith(ids) ==
    {Malformed, NullBody}
    \cup {Obj(i, n) : i \in {Absent, NumV("42")} \cup {Str(x) : x \in ids},
                      n \in {Absent, Str("")} \cup {Str(x) : x \in Names}}

PostBodies == BodiesWith(BodyIds)
PutBodies == BodiesWith({"a", "nonexistent"})

DeleteBodies ==
    {Malformed, NullBody}
    \cup {Obj(i, Absent) : i \in {Absent, Str(""), NumV("42"), Str("nonexistent")}
                                  \cup {Str(x) : x \in BodyIds}}

Outcome(kind, code, countAbsent, hookThrows, noRowIsError, newId, pos) ==
    [kind |-> kind, code |-> code, countAbsent |-> countAbsent,
     hookThrows |-> hookThrows, noRowIsError |-> noRowIsError, newId |-> newId,
     pos |-> pos]

Failures(codes) ==
    {Outcome("error", c, FALSE, FALSE, FALSE, "a", 1) : c \in codes}
    \cup {Outcome("throw", "", FALSE, FALSE, FALSE, "a", 1)}

GetOutcomes ==
    {Outcome("ok", "", ca, ht, FALSE, "a", 1) : ca \in BOOLEAN, ht \in BOOLEAN}
    \cup Failures({"57014"})

PostOutcomes(tbl) ==
    {Outcome("ok", "", FALSE, ht, FALSE, id, pos) :
        ht \in BOOLEAN, id \in Ids, pos \in 1..(Len(tbl) + 1)}
    \cup Failures({"23505", "23503"})

PutOutcomes ==
    {Outcome("ok", "", FALSE, FALSE, nr, "a", 1) : nr \in BOOLEAN}
    \cup Failures({"57014"})

DeleteOutcomes ==
    {Outcome("ok", "", FALSE, FALSE, FALSE, "a", 1)} \cup Failures({"57014"})

Timestamps == {"2025-09-20T18:01:18.123Z", "2025-09-20T18:01:19.456Z"}

\* contents the university table may have when it is read
RECURSIVE Prefix(_)
Prefix(n) == IF n = 0 THEN <<>> ELSE Prefix(n - 1) \o <<[id |-> IdPool[n], name |-> "x"]>>
UniversityTables == {Prefix(n) : n \in 0..(MaxRows + 1)}

\* query strings sent to the university route (its GET takes no request)
UniversityQueries ==
    {[page |-> Missing, pageSize |-> Missing],
     [page |-> Raw(<<"1">>), pageSize |-> Raw(<<"2">>)]}

(***************************************************************************)
(* The state machine.                                                      *)
(***************************************************************************)
NoCall == [method |-> "none"]

\* the `supabase` argument of r's handler: the client r's own dispatcher run
\* acquired (faulty variant: a client kept in one place for all invocations,
\* that of a pending invocation whichever it is)
supabase_mut(r) == client[CHOOSE o \in Reqs : pc[o] = "handler"]
supabase(r) == client[r]

\* the record of a completed invocation
Call(r, m, input, acquired, h, before) ==
    [method |-> m, input |-> input, acquired |-> acquired,
     usedClient |-> IF h.query = NoQuery THEN "none" ELSE supabase(r),
     factoryCalls |-> 1,
     handlerCalls |-> IF HandlerInvoked(acquired) THEN 1 ELSE 0,
     comp |-> h.comp, bodyReads |-> h.bodyReads, hookCalls |-> h.hookCalls,
     query |-> h.query, before |-> before, after |-> h.rows,
     resp |-> handleRequest(acquired, h.comp)]

Idle(tbl) == Done(NotInvoked, tbl, 0, 0, NoQuery)

Init ==
    /\ rows = <<>>
    /\ config \in [afterGet : BOOLEAN, beforeInsert : BOOLEAN]
    /\ pc = [r \in Reqs |-> "idle"]
    /\ client = [r \in Reqs |-> "none"]
    /\ created = "none"
    /\ last = NoCall

Methods == {"GET", "POST", "PUT", "DELETE"}

\* what createServerSideClient() may do: resolve to a client, resolve to a
\* falsy value, or throw
Acquisitions == {"client", "falsy", "throw"}

\* an endpoint is invoked, createServerSideClient() resolves and the dispatcher
\* goes on to the handler, handing it what the factory resolved to
Acquire(r) ==
    /\ last = NoCall
    /\ pc[r] = "idle"
    /\ \E acquired \in Acquisitions \ {"throw"} :
        /\ HandlerInvoked(acquired)
        /\ client' = [client EXCEPT ![r] = IF acquired = "client" THEN r ELSE "null"]
    /\ pc' = [pc EXCEPT ![r] = "handler"]
    /\ UNCHANGED <<rows, config, created, last>>

\* an endpoint is invoked and the dispatcher answers without the handler:
\* createServerSideClient() resolved falsy or threw
AcquireFails(r) ==
    /\ last = NoCall
    /\ pc[r] = "idle"
    /\ \E m \in Methods, acquired \in Acquisitions :
        /\ acquired = "throw" \/ ~HandlerInvoked(acquired)
        /\ last' = Call(r, m, [none |-> TRUE], acquired, Idle(rows), rows)
    /\ UNCHANGED <<rows, config, pc, client, created>>

\* what the pending handler of r was handed
Acquired(r) == IF supabase(r) = "null" THEN "falsy" ELSE "client"

\* every call on a null client throws
Through(r, outcomes) ==
    IF supabase(r) = "null" THEN {o \in outcomes : o.kind = "throw"} ELSE outcomes

\* a hook that is not configured cannot throw
Hooked(hook, outcomes) == {o \in outcomes : o.hookThrows => hook}

\* a create request whose body the schema rejects ends before the hook and
\* the backend are reached: one outcome stands for all
Reached(body, outcomes) ==
    IF createSchema_safeParse(body).success THEN outcomes
    ELSE {Outcome("ok", "", FALSE, FALSE, FALSE, "a", 1)}

\* the rest of an invocation: the handler runs and the dispatcher answers
Finish(r, m, input, h) ==
    /\ rows' = h.rows
    /\ last' = Call(r, m, input, Acquired(r), h, rows)
    /\ pc' = [pc EXCEPT ![r] = "idle"]
    /\ client' = [client EXCEPT ![r] = "none"]
    /\ UNCHANGED config

DoGET(r) ==
    /\ last = NoCall /\ pc[r] = "handler"
    /\ \E q \in Queries, be \in Through(r, Hooked(config.afterGet, GetOutcomes)) :
        \E h \in {GET_handler(config, rows, q, be)} : Finish(r, "GET", q, h)
    /\ UNCHANGED created

DoPOST(r) ==
    /\ last = NoCall /\ pc[r] = "handler"
    /\ \E body \in PostBodies :
        \E be \in Reached(body, Through(r, Hooked(config.beforeInsert, PostOutcomes(rows)))) :
        \E h \in {POST_handler(config, rows, body, be)} :
        /\ Finish(r, "POST", body, h)
        /\ created' = IF ~h.comp.threw /\ h.comp.resp.status = HttpStatus.CREATED
                      THEN h.comp.resp.body.data.id ELSE created

DoPUT(r) ==
    /\ last = NoCall /\ pc[r] = "handler"
    /\ \E body \in PutBodies, be \in Through(r, PutOutcomes) :
        \E h \in {PUT_handler(config, rows, body, be)} : Finish(r, "PUT", body, h)
    /\ UNCHANGED created

DoDELETE(r) ==
    /\ last = NoCall /\ pc[r] = "handler"
    /\ \E body \in DeleteBodies, be \in Through(r, DeleteOutcomes) :
        \E h \in {DELETE_handler(config, rows, body, be)} :
        /\ Finish(r, "DELETE", body, h)
        /\ created' = IF created \in IdsOf(h.rows) THEN created ELSE "none"

\* GET / (the root route)
RootGET ==
    /\ last = NoCall
    /\ \E clientThrows \in BOOLEAN, now \in Timestamps :
        last' = [method |-> "ROOT", input |-> [none |-> TRUE],
                 resp |-> Root_GET(clientThrows, now)]
    /\ UNCHANGED <<rows, config, pc, client, created>>

\* GET /university (the hand-written route)
UniversityGET ==
    /\ last = NoCall
    /\ \E acquired \in {"client", "falsy", "throw"}, tbl \in UniversityTables,
          q \in UniversityQueries, be \in {o \in GetOutcomes : ~o.hookThrows} :
        last' = [method |-> "UNIVERSITY", input |-> q,
                 table |-> tbl, resp |-> University_GET(acquired, tbl, be)]
    /\ UNCHANGED <<rows, config, pc, client, created>>

\* the response of the completed invocation is sent to its caller
Respond ==
    /\ last # NoCall
    /\ last' = NoCall
    /\ UNCHANGED <<rows, config, pc, client, created>>

Next ==
    \/ \E r \in Reqs : Acquire(r)
    \/ \E r \in Reqs : AcquireFails(r)
    \/ \E r \in Reqs : DoGET(r)
    \/ \E r \in Reqs : DoPOST(r)
    \/ \E r \in Reqs : DoPUT(r)
    \/ \E r \in Reqs : DoDELETE(r)
    \/ RootGET
    \/ UniversityGET
    \/ Respond

Spec == Init /\ [][Next]_vars

(***************************************************************************)
(* Properties.  `last` is the invocation that has just completed.          *)
(***************************************************************************)
FactoryCall == last.method \in Methods
Status == last.resp.status
Code == last.resp.body.error.code
Failed == ~last.resp.body.success

\* ceil(t / s) for t >= 0 and s >= 1, by its defining property
Ceil(t, s) == CHOOSE k \in 0..t : k * s >= t /\ (k = 0 \/ (k - 1) * s < t)

Range(seq) == {seq[i] : i \in 1..Len(seq)}

\* C1: a list request with positive integer page and pageSize asks the backend
\* for the rows (page-1)*pageSize .. (page-1)*pageSize + pageSize - 1, and a
\* successful one reports totalPages = ceil(total / pageSize), total being the
\* backend's exact count, or 0 when the backend reports no count.
C1_ListRange ==
    \A p \in 1..MaxPage, s \in 1..MaxPage :
        (/\ last.method = "GET"
         /\ last.handlerCalls = 1
         /\ last.input = [page |-> Raw(Decimal(p)), pageSize |-> Raw(Decimal(s))])
        => /\ last.query.op = "select"
           /\ last.query.from = Num((p - 1) * s)
           /\ last.query.to = Num((p - 1) * s + s - 1)
           /\ Status = HttpStatus.OK =>
                LET t == IF last.query.count = Null THEN 0 ELSE Len(last.before) IN
                    /\ last.query.count \in {Null, Num(Len(last.before))}
                    /\ last.resp.body.pagination.total = Num(t)
                    /\ last.resp.body.pagination.totalPages = Num(Ceil(t, s))

C1_WitnessNoCount ==
    /\ last.method = "GET"
    /\ last.handlerCalls = 1
    /\ last.input = [page |-> Raw(<<"1">>), pageSize |-> Raw(<<"2">>)]
    /\ Status = HttpStatus.OK
    /\ last.query.count = Null
    /\ Len(last.resp.body.data) = 2
    /\ last.resp.body.pagination.totalPages = Num(0)

C1_Witness ==
    /\ last.method = "GET"
    /\ last.handlerCalls = 1
    /\ last.input = [page |-> Raw(<<"2">>), pageSize |-> Raw(<<"1">>)]
    /\ Status = HttpStatus.OK
    /\ last.query.from = Num(1)
    /\ last.resp.body.pagination.total = Num(2)
    /\ last.resp.body.pagination.totalPages = Num(2)

\* C2: a create request whose parsed body fails the create schema is answered
\* 422 VALIDATION_ERROR; the pre-insert transform is not called, no query is
\* issued and the stored rows are unchanged.
RejectedCreate ==
    /\ last.method = "POST"
    /\ last.bodyReads = 1
    /\ last.input.kind # "malformed"
    /\ ~createSchema_safeParse(last.input).success

C2_InvalidCreate ==
    RejectedCreate
    => /\ Status = HttpStatus.UNPROCESSABLE_ENTITY
       /\ Failed /\ Code = ErrorCode.VALIDATION_ERROR
       /\ last.hookCalls = 0
       /\ last.query = NoQuery
       /\ last.after = last.before

C2_Witness ==
    /\ RejectedCreate
    /\ config.beforeInsert
    /\ last.input.kind = "object"
    /\ last.before # <<>>
    /\ Status = HttpStatus.UNPROCESSABLE_ENTITY

\* C3: an update request whose validated data holds no field but the identifier
\* is answered 400 BAD_REQUEST, and no backend update is issued.
EmptyUpdate ==
    /\ last.method = "PUT"
    /\ last.bodyReads = 1
    /\ last.input.kind # "malformed"
    /\ updateSchema_safeParse(last.input).success
    /\ Keys(updateSchema_safeParse(last.input).data) \subseteq {"id"}

C3_EmptyUpdate ==
    EmptyUpdate
    => /\ Status = HttpStatus.BAD_REQUEST
       /\ Failed /\ Code = ErrorCode.BAD_REQUEST
       /\ last.query = NoQuery
       /\ last.after = last.before

C3_Witness ==
    /\ EmptyUpdate
    /\ last.input.id.v \in IdsOf(last.before)
    /\ Status = HttpStatus.BAD_REQUEST

\* C4 as claimed: a delete request whose identifier is a string matching no
\* stored row is answered 404 NOT_FOUND and leaves the stored rows as they were
\* (read for a backend that answers the delete, if one is issued, without a fault).
DeleteOfMissing ==
    /\ last.method = "DELETE"
    /\ last.bodyReads = 1
    /\ last.input.kind = "object"
    /\ last.input.id.t = "string"
    /\ last.input.id.v \notin IdsOf(last.before)

BackendSound == last.query = NoQuery \/ last.query.result.kind = "ok"

C4_Claimed ==
    (DeleteOfMissing /\ BackendSound)
    => /\ Status = HttpStatus.NOT_FOUND
       /\ Failed /\ Code = ErrorCode.NOT_FOUND
       /\ last.after = last.before

\* C4 amended: such a request always leaves the stored rows as they were; it is
\* answered 404 NOT_FOUND when the identifier is a non-empty string and the
\* backend delete answers without a fault, and 400 BAD_REQUEST (without any
\* backend query) when the identifier is the empty string.
C4_DeleteMissing ==
    DeleteOfMissing
    => /\ last.after = last.before
       /\ (last.input.id.v # "" /\ BackendSound)
            => (Status = HttpStatus.NOT_FOUND /\ Failed /\ Code = ErrorCode.NOT_FOUND)
       /\ last.input.id.v # "" => last.query.op = "delete"
       /\ last.input.id.v = ""
            => (Status = HttpStatus.BAD_REQUEST /\ Code = ErrorCode.BAD_REQUEST
                /\ last.query = NoQuery)

C4_Witness ==
    /\ DeleteOfMissing
    /\ last.input.id.v = "nonexistent"
    /\ Len(last.before) = MaxRows
    /\ Status = HttpStatus.NOT_FOUND
    /\ last.after = last.before

\* C5: a create request whose backend insert returns an error is answered
\* 409 CONFLICT when the error code is "23505", and 500 SUPABASE_QUERY_ERROR
\* for every other error code.
InsertFailed ==
    /\ last.method = "POST"
    /\ last.query.op = "insert"
    /\ last.query.result.kind = "error"

C5_InsertErrors ==
    InsertFailed
    => /\ Failed
       /\ IF last.query.result.code = "23505"
          THEN Status = HttpStatus.CONFLICT /\ Code = ErrorCode.CONFLICT
          ELSE Status = HttpStatus.INTERNAL_SERVER_ERROR
               /\ Code = ErrorCode.SUPABASE_QUERY_ERROR

C5_Witness ==
    /\ InsertFailed
    /\ last.query.result.code = "23503"
    /\ Status = HttpStatus.INTERNAL_SERVER_ERROR

C5_WitnessConflict ==
    /\ InsertFailed
    /\ last.query.result.code = "23505"
    /\ Status = HttpStatus.CONFLICT

\* C6 as claimed: once a create request has succeeded for a record (and the
\* record is still stored), a successful list request for page 1 with any page
\* size >= 1 returns that record's identifier exactly once.
PageSizes == 1..MaxPage \cup {10}

\* a list request for page 1 with page size s (10 also when pageSize is missing)
PageOne(s) ==
    /\ last.method = "GET"
    /\ last.handlerCalls = 1
    /\ last.input.page \in {Missing, Raw(<<"1">>)}
    /\ last.input.pageSize \in {Raw(Decimal(s))} \cup (IF s = 10 THEN {Missing} ELSE {})
    /\ Status = HttpStatus.OK

Occurrences(id) ==
    Cardinality({i \in 1..Len(last.resp.body.data) : last.resp.body.data[i].id = id})

C6_Claimed ==
    \A s \in PageSizes :
        (PageOne(s) /\ created # "none") => Occurrences(created) = 1

\* C6 amended: such a list returns the record's identifier at most once, and
\* exactly once when the page size is at least the number of rows the table
\* holds when the list is served; with a smaller page size the record may be
\* missing from page 1.
C6_RoundTrip ==
    \A s \in PageSizes :
        (PageOne(s) /\ created # "none")
        => /\ created \in IdsOf(last.before)
           /\ Occurrences(created) <= 1
           /\ s >= Len(last.before) => Occurrences(created) = 1

C6_Witness ==
    /\ PageOne(MaxRows)
    /\ Len(last.before) = MaxRows
    /\ created = last.before[MaxRows].id
    /\ Occurrences(created) = 1

\* C7 as claimed: every fault raised while a factory endpoint runs (client
\* acquisition, body parsing, a hook, the backend call) ends in the generic
\* envelope: 500 INTERNAL_SERVER_ERROR, "An unexpected error occurred.", with
\* nothing of the fault's own message.
FaultRaised ==
    /\ FactoryCall
    /\ \/ last.acquired = "throw"
       \/ last.comp.threw
       \/ last.bodyReads = 1 /\ last.input.kind = "malformed"

GenericFailure ==
    /\ Status = HttpStatus.INTERNAL_SERVER_ERROR
    /\ Failed /\ Code = ErrorCode.INTERNAL_SERVER_ERROR
    /\ last.resp.body.error.message = UnexpectedMessage
    /\ \A f \in FaultMessages : f \notin Range(last.resp.body.error.message)

C7_Claimed == FaultRaised => GenericFailure

\* C7 amended: every such fault ends in the generic envelope, except the body
\* parse fault of an update request, which the update handler catches itself
\* and answers 400 BAD_REQUEST "Invalid JSON format in request body."; in all
\* cases the invocation returns an envelope.
UpdateParseFault ==
    last.method = "PUT" /\ last.bodyReads = 1 /\ last.input.kind = "malformed"

C7_Faults ==
    /\ FactoryCall => last.resp # NoResponse
    /\ (FaultRaised /\ ~UpdateParseFault) => GenericFailure
    /\ UpdateParseFault
        => /\ Status = HttpStatus.BAD_REQUEST
           /\ Failed /\ Code = ErrorCode.BAD_REQUEST
           /\ last.resp.body.error.message = <<"Invalid JSON format in request body.">>

C7_Witness ==
    /\ FaultRaised
    /\ last.method = "POST"
    /\ last.comp.fault = FaultHook
    /\ GenericFailure

\* C8: when the client factory resolves falsy the dispatcher answers
\* 500 SUPABASE_NOT_INITIALIZED and the handler is not invoked (no body read,
\* no query, rows untouched); when it resolves to a client the handler is
\* invoked and the envelope it returns is the dispatcher's answer, unchanged.
C8_Dispatcher ==
    FactoryCall
    => /\ last.acquired = "falsy"
            => /\ Status = HttpStatus.INTERNAL_SERVER_ERROR
               /\ Failed /\ Code = ErrorCode.SUPABASE_NOT_INITIALIZED
               /\ last.handlerCalls = 0
               /\ last.bodyReads = 0
               /\ last.query = NoQuery
               /\ last.after = last.before
       /\ last.acquired = "client"
            => /\ last.handlerCalls = 1
               /\ ~last.comp.threw => last.resp = last.comp.resp

C8_Witness ==
    /\ FactoryCall
    /\ last.acquired = "falsy"
    /\ last.before # <<>>
    /\ Code = ErrorCode.SUPABASE_NOT_INITIALIZED

C8_WitnessHandler ==
    /\ FactoryCall
    /\ last.acquired = "client"
    /\ ~last.comp.threw
    /\ Status = HttpStatus.CREATED

\* C9 as claimed: every response of every endpoint (factory, university, root)
\* has the success shape {success: true, data, pagination?} or the failure
\* shape {success: false, error: {code, message, details}}.
EnvelopeShape(body) ==
    \/ /\ DOMAIN body = {"success", "data"}
       /\ body.success = TRUE
    \/ /\ DOMAIN body = {"success", "data", "pagination"}
       /\ body.success = TRUE
       /\ DOMAIN body.pagination = {"page", "pageSize", "total", "totalPages"}
    \/ /\ DOMAIN body = {"success", "error"}
       /\ body.success = FALSE
       /\ DOMAIN body.error = {"code", "message", "details"}

C9_Claimed == last # NoCall => EnvelopeShape(last.resp.body)

\* the part of C9 that the code keeps: the factory endpoints and the
\* university route answer in one of the two shapes
C9_ApiResponseShape ==
    (FactoryCall \/ last.method = "UNIVERSITY") => EnvelopeShape(last.resp.body)

\* C10 as claimed: the body of the root endpoint's answer has a top-level
\* "message" equal to "Welcome to Edunity API" and a top-level "timestamp".
C10_Claimed ==
    last.method = "ROOT"
    => /\ "message" \in DOMAIN last.resp.body
       /\ last.resp.body.message = "Welcome to Edunity API"
       /\ "timestamp" \in DOMAIN last.resp.body

\* what the root endpoint does answer when nothing throws: the welcome record
\* wrapped as {success, status, data}
C10_RootWrapped ==
    (last.method = "ROOT" /\ Status = HttpStatus.OK)
    => /\ DOMAIN last.resp.body = {"success", "status", "data"}
       /\ last.resp.body.data.message = "Welcome to Edunity API"
       /\ "timestamp" \in DOMAIN last.resp.body.data

\* C11 as claimed: in a list request a page or pageSize parameter that is
\* missing or non-numeric falls back to its default (1, 10) before the row
\* range and the pagination metadata are computed; a value that parses to a
\* number is used as given, zero and negative ones included.
Numeric(v) == v.present /\ IsNum(parseInt(v.s))
Claimed(v, dflt) == IF Numeric(v) THEN parseInt(v.s).n ELSE dflt

ListCall == last.method = "GET" /\ last.handlerCalls = 1

C11_Claimed ==
    ListCall
    => LET p == Claimed(last.input.page, 1)
           s == Claimed(last.input.pageSize, 10)
       IN  /\ last.query.op = "select"
           /\ last.query.from = Num((p - 1) * s)
           /\ last.query.to = Num((p - 1) * s + s - 1)
           /\ Status = HttpStatus.OK
                => /\ last.resp.body.pagination.page = Num(p)
                   /\ last.resp.body.pagination.totalPages
                        = JsonNumber(CeilDiv(CountOrZero(last.query.count), Num(s)))

\* the part of C11 that the code keeps: a missing parameter takes its
\* default, and a parameter that parses to a number is used as given
C11_ParsedOrMissing ==
    (/\ ListCall
     /\ ~last.input.page.present \/ Numeric(last.input.page)
     /\ ~last.input.pageSize.present \/ Numeric(last.input.pageSize))
    => LET p == Claimed(last.input.page, 1)
           s == Claimed(last.input.pageSize, 10)
       IN  /\ last.query.from = Num((p - 1) * s)
           /\ last.query.to = Num((p - 1) * s + s - 1)

\* what the code does with a non-numeric parameter: the range bounds are NaN
C11_NonNumeric ==
    (ListCall /\ last.input.page.present /\ ~Numeric(last.input.page))
    => last.query.from = NaN /\ last.query.to = NaN

\* C12 as claimed: a successful list request on a resource holding N rows,
\* with page p and pageSize s, returns exactly the rows of the range
\* [(p-1)*s, p*s-1] and reports page = p, pageSize = the number of rows
\* returned, total = N and totalPages = ceil(N/s); this for the resources of
\* the factory and for the university resource alike (read for a backend that
\* reports its exact count).
ListServed ==
    /\ ListCall \/ last.method = "UNIVERSITY"
    /\ Status = HttpStatus.OK
    /\ ListCall => last.query.count # Null

Held == IF last.method = "UNIVERSITY" THEN last.table ELSE last.before

IdSeq(seq) == [i \in 1..Len(seq) |-> seq[i].id]

Paged(p, s) ==
    LET data == last.resp.body.data
        N == Len(Held)
    IN  /\ IdSeq(data) = IdSeq(Slice(Held, (p - 1) * s, p * s - 1))
        /\ last.resp.body.pagination.page = Num(p)
        /\ last.resp.body.pagination.pageSize = Num(Len(data))
        /\ last.resp.body.pagination.total = Num(N)
        /\ last.resp.body.pagination.totalPages = Num(Ceil(N, s))

C12_Claimed ==
    \A p \in 1..MaxPage, s \in 1..MaxPage :
        (/\ ListServed
         /\ last.input = [page |-> Raw(Decimal(p)), pageSize |-> Raw(Decimal(s))])
        => Paged(p, s)

\* the part of C12 that the code keeps: the lists of the factory
C12_FactoryList ==
    \A p \in 1..MaxPage, s \in 1..MaxPage :
        (/\ ListServed /\ ListCall
         /\ last.input = [page |-> Raw(Decimal(p)), pageSize |-> Raw(Decimal(s))])
        => Paged(p, s)

\* what the university route answers whatever the query string: every row,
\* as page 1 of 1
C12_UniversityWhole ==
    (last.method = "UNIVERSITY" /\ Status = HttpStatus.OK)
    => /\ last.resp.body.data = last.table
       /\ last.resp.body.pagination.page = Num(1)
       /\ last.resp.body.pagination.total = Num(Len(last.table))
       /\ last.resp.body.pagination.totalPages = Num(1)

\* the scenario of the claim: page=1, pageSize=2, three rows
C12_Example ==
    /\ last.method = "UNIVERSITY" /\ Status = HttpStatus.OK
    /\ last.input = [page |-> Raw(<<"1">>), pageSize |-> Raw(<<"2">>)]
    /\ Len(last.table) = 3
    /\ Len(last.resp.body.data) = 3
    /\ last.resp.body.pagination.totalPages = Num(1)

\* C13: an update request that passes validation with at least one field
\* besides the identifier issues one backend update whose field set is the
\* validated fields without the identifier.  When the backend returns an
\* error the answer is 500 SUPABASE_QUERY_ERROR; when it returns neither an
\* error nor a row the answer is 404 NOT_FOUND with a message naming the
\* resource and the identifier, and the stored rows are unchanged; when it
\* returns the row the answer is 200 with that row as payload.
ValidUpdate ==
    /\ last.method = "PUT"
    /\ last.bodyReads = 1
    /\ last.input.kind # "malformed"
    /\ updateSchema_safeParse(last.input).success
    /\ Keys(updateSchema_safeParse(last.input).data) \ {"id"} # {}

C13_Update ==
    ValidUpdate
    => /\ last.query.op = "update"
       /\ "id" \notin last.query.fields
       /\ last.query.fields = Keys(updateSchema_safeParse(last.input).data) \ {"id"}
       /\ last.query.id = last.input.id.v
       /\ last.query.result.kind = "error"
            => /\ Status = HttpStatus.INTERNAL_SERVER_ERROR
               /\ Failed /\ Code = ErrorCode.SUPABASE_QUERY_ERROR
       /\ (last.query.result.kind = "ok" /\ last.query.data = Null)
            => /\ Status = HttpStatus.NOT_FOUND
               /\ Failed /\ Code = ErrorCode.NOT_FOUND
               /\ resourceName \in Range(last.resp.body.error.message)
               /\ last.input.id.v \in Range(last.resp.body.error.message)
               /\ last.after = last.before
       /\ (last.query.result.kind = "ok" /\ last.query.data # Null)
            => /\ Status = HttpStatus.OK
               /\ last.resp.body = [success |-> TRUE, data |-> last.query.data]
               /\ last.resp.body.data.id = last.input.id.v
               /\ last.resp.body.data.name = last.input.name.v
               /\ last.resp.body.data \in Range(last.after)

C13_Witness ==
    /\ ValidUpdate
    /\ last.before # <<>>
    /\ last.input.id.v = "nonexistent"
    /\ last.query.result.kind = "ok"
    /\ last.query.data = Null
    /\ Status = HttpStatus.NOT_FOUND

C13_WitnessUpdated ==
    /\ ValidUpdate
    /\ Status = HttpStatus.OK
    /\ last.after # last.before

C13_WitnessError ==
    /\ ValidUpdate
    /\ last.query.result.kind = "error"
    /\ Code = ErrorCode.SUPABASE_QUERY_ERROR

\* a backend whose single-row read reports the missing row as an error
\* (PGRST116) makes the update of an unknown identifier a 500, not a 404
C13_WitnessNoRowError ==
    /\ ValidUpdate
    /\ last.input.id.v \notin IdsOf(last.before)
    /\ last.query.result = [kind |-> "error", code |-> "PGRST116"]
    /\ Status = HttpStatus.INTERNAL_SERVER_ERROR

\* C14 as claimed: a delete request whose (parsed) body has no identifier
\* field, or one that is not a string, is answered 400 BAD_REQUEST, and no
\* backend delete is issued for it.
DeleteWithoutId ==
    /\ last.method = "DELETE"
    /\ last.bodyReads = 1
    /\ last.input.kind # "malformed"
    /\ last.input.id.t # "string"

C14_Claimed ==
    DeleteWithoutId
    => /\ Status = HttpStatus.BAD_REQUEST
       /\ Failed /\ Code = ErrorCode.BAD_REQUEST
       /\ last.query = NoQuery

\* the part of C14 that the code keeps: no backend delete is issued and the
\* rows stay as they were; a body that is a JSON object is answered 400
C14_ObjectBody ==
    DeleteWithoutId
    => /\ last.query = NoQuery
       /\ last.after = last.before
       /\ last.input.kind = "object"
            => (Status = HttpStatus.BAD_REQUEST /\ Failed /\ Code = ErrorCode.BAD_REQUEST)

\* what the code does with the body null: reading the identifier off it throws,
\* and the dispatcher answers the generic 500
C14_NullBody ==
    (DeleteWithoutId /\ last.input = NullBody)
    => /\ last.comp = Throw(FaultDestructure)
       /\ Status = HttpStatus.INTERNAL_SERVER_ERROR
       /\ Failed /\ Code = ErrorCode.INTERNAL_SERVER_ERROR

C14_NullBodySeen == DeleteWithoutId /\ last.input = NullBody /\ last.before # <<>>

\* C15: in every interleaving of concurrent invocations of the factory's
\* endpoints, each invocation calls the client factory once (its client is set
\* when it starts, kept while it is pending and dropped when it ends), issues
\* at most one backend query, of its endpoint's kind and through the client it
\* acquired itself, and neither writes another invocation's state nor the
\* configuration; its handler is handed what the invocation itself acquired
\* and its answer is the dispatcher's answer to its own handler's run; the
\* table changes only by the one query of a finishing invocation.
Starts(r) == pc[r] = "idle" /\ pc'[r] = "handler"
Finishes(r) == pc[r] = "handler" /\ pc'[r] = "idle"

QueryOf(m) ==
    CASE m = "GET" -> "select" [] m = "POST" -> "insert"
      [] m = "PUT" -> "update" [] m = "DELETE" -> "delete"

OutcomesOf(m, tbl) ==
    CASE m = "GET" -> GetOutcomes [] m = "POST" -> PostOutcomes(tbl)
      [] m = "PUT" -> PutOutcomes [] m = "DELETE" -> DeleteOutcomes

HandlerOf(m, cfg, tbl, input, be) ==
    CASE m = "GET" -> GET_handler(cfg, tbl, input, be)
      [] m = "POST" -> POST_handler(cfg, tbl, input, be)
      [] m = "PUT" -> PUT_handler(cfg, tbl, input, be)
      [] m = "DELETE" -> DELETE_handler(cfg, tbl, input, be)

\* the backend answers that agree with what c recorded of its hook and query
Answers(c) ==
    {o \in OutcomesOf(c.method, c.before) :
        /\ o.hookThrows = (c.comp.threw /\ c.comp.fault = FaultHook)
        /\ o.kind = IF c.query = NoQuery THEN "ok"
                    ELSE IF c.query.result.kind = "throw" THEN "throw"
                    ELSE IF c.query.result.code \in {"57014", "23503", "23505"}
                    THEN "error" ELSE "ok"
        /\ o.kind = "error" => o.code = c.query.result.code}

\* the completed invocation c did what its handler does on its own input
OwnRun(c, cfg) ==
    \E be \in Answers(c) :
        HandlerOf(c.method, cfg, c.before, c.input, be)
            = Done(c.comp, c.after, c.bodyReads, c.hookCalls, c.query)

C15_Step ==
    /\ config' = config
    /\ \A r \in Reqs :
        /\ Starts(r) => (client[r] = "none" /\ client'[r] = r)
        /\ (pc[r] = "handler" /\ pc'[r] = "handler") => client'[r] = client[r]
        /\ pc'[r] = "idle" => client'[r] = "none"
        /\ (pc'[r] # pc[r] \/ client'[r] # client[r])
            => \A o \in Reqs \ {r} : pc'[o] = pc[o] /\ client'[o] = client[o]
        /\ Finishes(r)
            => /\ last'.method \in Methods
               /\ last'.factoryCalls = 1 /\ last'.handlerCalls = 1
               /\ last'.query.op \in {"none", QueryOf(last'.method)}
               /\ last'.usedClient = IF last'.query = NoQuery THEN "none" ELSE r
               /\ last'.before = rows /\ last'.after = rows'
               /\ last'.acquired = IF client[r] = r THEN "client" ELSE "falsy"
               /\ last'.resp = handleRequest(last'.acquired, last'.comp)
    /\ (last = NoCall /\ last'.method \in Methods /\ ~\E r \in Reqs : Finishes(r))
        => /\ last'.factoryCalls = 1 /\ last'.handlerCalls = 0
           /\ last'.query = NoQuery /\ last'.usedClient = "none"
           /\ UNCHANGED <<rows, pc, client>>
    /\ rows' # rows
        => /\ \E r \in Reqs : Finishes(r)
           /\ last'.query.op \in {"insert", "update", "delete"}
           /\ last'.query.result.kind = "ok"

C15_Isolation == [][C15_Step]_vars

\* moreover what a completed invocation did (how it ended, the table it left,
\* its body reads, hook calls and query) is what its handler does on its own
\* input, the configuration, the table as it was and some answer of the
\* backend: nothing of another invocation enters
C15_OwnRun == (FactoryCall /\ last.handlerCalls = 1) => OwnRun(last, config)

\* two invocations overlap: one has just completed an insert through its own
\* client while the other, which acquired its client earlier, is still pending
C15_Witness ==
    /\ FactoryCall
    /\ last.query.op = "insert"
    /\ last.after # last.before
    /\ \E r \in Reqs : pc[r] = "handler" /\ client[r] = r /\ last.usedClient # r

====
